---- MODULE Spec2Model ----
(***************************************************************************)
(* Model of function/backtest.py (backtest_strategy, plot_performance) and *)
(* function/fetch_stock_data.py (fetch_stock_data).                        *)
(*                                                                         *)
(* Numbers.  A float is modelled as an exact rational <<n, d>> with d > 0  *)
(* and gcd(n, d) = 1; NaN is the pair <<0, 0>>.  Rounding of float64 is    *)
(* not modelled.  A square root has no rational value: std_return is       *)
(* carried as its square (the sample variance) and sharpe_ratio as its     *)
(* signed square, sign(mean) * 252 * mean^2 / variance, which is zero,     *)
(* positive, negative or NaN exactly when the code's value is.             *)
(***************************************************************************)
EXTENDS Integers, Sequences, FiniteSets, TLC

VARIABLES
    \* ---- backtest_strategy ----
    pc,             \* position in backtest_strategy
    signals,        \* argument signals
    returns,        \* argument returns
    plot_charts,    \* argument plot_charts
    df,             \* the DataFrame: column name -> column
    total_pnl,      \* local total_pnl
    mean_return,    \* local mean_return
    std_return,     \* local std_return (as its square)
    sharpe_ratio,   \* local sharpe_ratio (as its signed square)
    drawdown,       \* local drawdown (a column)
    max_drawdown,   \* local max_drawdown
    cumulative_return, \* local cumulative_return
    results,        \* the results dictionary (its DataFrame entry is df itself)
    figure,         \* what plot_performance has drawn
    returned,       \* the value handed to the caller
    raised,         \* the exception that left backtest_strategy
    \* ---- fetch_stock_data ----
    fpc,            \* position in fetch_stock_data
    ticker, start_date, end_date,   \* arguments
    provider_calls, \* number of calls of yf.download
    data,           \* local data
    exc,            \* the exception caught
    printed,        \* the diagnostics printed
    fetched         \* the outcome of fetch_stock_data

bvars == <<pc, signals, returns, plot_charts, df, total_pnl, mean_return,
           std_return, sharpe_ratio, drawdown, max_drawdown,
           cumulative_return, results, figure, returned, raised>>
fvars == <<fpc, ticker, start_date, end_date, provider_calls, data, exc,
           printed, fetched>>
vars == <<bvars, fvars>>

-----------------------------------------------------------------------------
(* Bounds of the model *)

\* longest signal / return sequence enumerated
MaxLen == 3
\* most rows the provider returns
MaxRows == 2
\* dates are 1 .. MaxDate
MaxDate == 2

-----------------------------------------------------------------------------
(* Float arithmetic, exact *)

NaN == <<0, 0>>

isnan(x) == x[2] = 0

Abs(n) == IF n < 0 THEN -n ELSE n

RECURSIVE GCD(_, _)
GCD(a, b) == IF b = 0 THEN a ELSE GCD(b, a % b)

\* the float with numerator n and denominator d /= 0, in lowest terms
Norm(n, d) ==
    LET g == GCD(Abs(n), Abs(d))
        s == IF d < 0 THEN -1 ELSE 1
    IN  <<s * (n \div g), s * (d \div g)>>

Num(n) == <<n, 1>>

\* x + y; NaN if either is NaN
Add(x, y) ==
    IF isnan(x) \/ isnan(y) THEN NaN
    ELSE LET g == GCD(x[2], y[2])
         IN  Norm(x[1] * (y[2] \div g) + y[1] * (x[2] \div g),
                  (x[2] \div g) * y[2])

Neg(x) == IF isnan(x) THEN NaN ELSE <<-x[1], x[2]>>

\* x - y
Sub(x, y) == Add(x, Neg(y))

\* x * y; NaN if either is NaN
Mul(x, y) ==
    IF isnan(x) \/ isnan(y) THEN NaN
    ELSE LET g1 == GCD(Abs(x[1]), y[2])
             g2 == GCD(Abs(y[1]), x[2])
         IN  Norm((x[1] \div g1) * (y[1] \div g2),
                  (x[2] \div g2) * (y[2] \div g1))

\* x / y; NaN if either is NaN, and 0/0 is NaN.  (x/0 with x /= 0 is an
\* infinity: backtest_strategy divides by a count, which gives 0/0 when it is
\* zero, by std_return behind the test std_return != 0, and by cumulative_max,
\* which is at least cumulative_returns[0] = 1.)
Div(x, y) ==
    IF isnan(x) \/ isnan(y) \/ y[1] = 0 THEN NaN
    ELSE Mul(x, Norm(y[2], y[1]))

\* a/b < c/d for b, d > 0, by continued fractions (no cross product)
RECURSIVE FracLess(_, _, _, _)
FracLess(a, b, c, d) ==
    LET qa == a \div b
        qc == c \div d
        ra == a % b
        rc == c % d
    IN  IF qa # qc THEN qa < qc
        ELSE IF rc = 0 THEN FALSE
        ELSE IF ra = 0 THEN TRUE
        ELSE FracLess(d, rc, b, ra)

\* x < y; FALSE if either is NaN, as for floats
Less(x, y) ==
    IF isnan(x) \/ isnan(y) THEN FALSE
    ELSE FracLess(x[1], x[2], y[1], y[2])

\* x <= y; FALSE if either is NaN
LessEq(x, y) == ~isnan(x) /\ ~isnan(y) /\ ~Less(y, x)

\* x != y of Python: TRUE if either is NaN
NotEqual(x, y) == isnan(x) \/ isnan(y) \/ x # y

-----------------------------------------------------------------------------
(* pandas Series operations, on a column = a sequence of floats *)

\* no shift: row i keeps its own value
shift_same_row(col) == col

\* Series.shift(1): row i takes the value of row i-1, row 0 becomes NaN
shift(col) == [i \in 1..Len(col) |-> IF i = 1 THEN NaN ELSE col[i - 1]]

\* a * b, row by row
SeriesMul(a, b) == [i \in 1..Len(a) |-> Mul(a[i], b[i])]

\* a - b, row by row
SeriesSub(a, b) == [i \in 1..Len(a) |-> Sub(a[i], b[i])]

\* a / b, row by row
SeriesDiv(a, b) == [i \in 1..Len(a) |-> Div(a[i], b[i])]

\* 1 - col
OneMinus(col) == [i \in 1..Len(col) |-> Sub(Num(1), col[i])]

\* 1 + col
OnePlus(col) == [i \in 1..Len(col) |-> Add(Num(1), col[i])]

\* fillna whose result is dropped: the column stays as it was
fillna_dropped(col, v) == col

\* Series.fillna(v)
fillna(col, v) == [i \in 1..Len(col) |-> IF isnan(col[i]) THEN v ELSE col[i]]

\* the rows of col that are not NaN (skipna)
RECURSIVE dropna(_)
dropna(col) ==
    IF col = <<>> THEN <<>>
    ELSE IF isnan(Head(col)) THEN dropna(Tail(col))
    ELSE <<Head(col)>> \o dropna(Tail(col))

\* Series.cumprod(): running product; a NaN row is skipped and stays NaN
RECURSIVE CumProdFrom(_, _)
CumProdFrom(acc, col) ==
    IF col = <<>> THEN <<>>
    ELSE IF isnan(Head(col)) THEN <<NaN>> \o CumProdFrom(acc, Tail(col))
    ELSE <<Mul(acc, Head(col))>> \o CumProdFrom(Mul(acc, Head(col)), Tail(col))

\* Series.cumsum() in place of cumprod(): the running sum
RECURSIVE CumSumFrom(_, _)
CumSumFrom(acc, col) ==
    IF col = <<>> THEN <<>>
    ELSE IF isnan(Head(col)) THEN <<NaN>> \o CumSumFrom(acc, Tail(col))
    ELSE <<Add(acc, Head(col))>> \o CumSumFrom(Add(acc, Head(col)), Tail(col))

cumprod_as_cumsum(col) == CumSumFrom(Num(0), col)

cumprod(col) == CumProdFrom(Num(1), col)

\* Series.cummax(): running maximum; a NaN row is skipped and stays NaN
RECURSIVE CumMaxFrom(_, _)
CumMaxFrom(acc, col) ==
    IF col = <<>> THEN <<>>
    ELSE IF isnan(Head(col)) THEN <<NaN>> \o CumMaxFrom(acc, Tail(col))
    ELSE LET m == IF isnan(acc) \/ Less(acc, Head(col)) THEN Head(col) ELSE acc
         IN  <<m>> \o CumMaxFrom(m, Tail(col))

\* Series.cummin() in place of cummax(): the running minimum
RECURSIVE CumMinFrom(_, _)
CumMinFrom(acc, col) ==
    IF col = <<>> THEN <<>>
    ELSE IF isnan(Head(col)) THEN <<NaN>> \o CumMinFrom(acc, Tail(col))
    ELSE LET m == IF isnan(acc) \/ Less(Head(col), acc) THEN Head(col) ELSE acc
         IN  <<m>> \o CumMinFrom(m, Tail(col))

cummin(col) == CumMinFrom(NaN, col)

cummax(col) == CumMaxFrom(NaN, col)

RECURSIVE SumSeq(_)
SumSeq(col) == IF col = <<>> THEN Num(0) ELSE Add(Head(col), SumSeq(Tail(col)))

\* a sum that stops one row short
sum_skips_last(col) ==
    IF col = <<>> THEN Num(0) ELSE SumSeq(dropna(SubSeq(col, 1, Len(col) - 1)))

\* Series.sum(): NaN rows skipped; 0 for no rows
sum(col) == SumSeq(dropna(col))

\* Series.mean(): NaN rows skipped; NaN (0/0) for no rows
mean(col) == Div(sum(col), Num(Len(dropna(col))))

\* the square of Series.std(): the sample variance (ddof = 1) of the rows
\* that are not NaN; NaN for fewer than two rows
std(col) ==
    LET xs == dropna(col)
        m  == mean(col)
        dev == [i \in 1..Len(xs) |-> Mul(Sub(xs[i], m), Sub(xs[i], m))]
    IN  IF Len(xs) < 2 THEN NaN
        ELSE Div(SumSeq(dev), Num(Len(xs) - 1))

RECURSIVE MinSeq(_)
MinSeq(col) ==
    IF Len(col) = 1 THEN Head(col)
    ELSE LET m == MinSeq(Tail(col))
         IN  IF Less(Head(col), m) THEN Head(col) ELSE m

\* Series.min(): NaN rows skipped; NaN for no rows
min(col) == IF dropna(col) = <<>> THEN NaN ELSE MinSeq(dropna(col))

\* trading days per year under the square root of the Sharpe ratio
AnnualizationFactor == 252

Sign(x) == IF x[1] < 0 THEN -1 ELSE IF x[1] > 0 THEN 1 ELSE 0

\* (m / s) * sqrt(252) if s != 0 else NaN, with s = sqrt(v): its signed square
Sharpe(m, v) ==
    IF NotEqual(v, Num(0))
    THEN Mul(Num(Sign(m) * AnnualizationFactor), Div(Mul(m, m), v))
    ELSE NaN

-----------------------------------------------------------------------------
(* backtest_strategy *)

\* a local not yet assigned
Unset == <<>>

\* SignalSeries: -1 short, 0 flat, 1 long
SignalValues == {Num(-1), Num(0), Num(1)}

\* fractional period returns: -150%, -100%, +3%
ReturnValues == {<<-3, 2>>, <<-1, 1>>, <<3, 100>>}

ScenarioSignals == <<Num(0), Num(1), Num(1), Num(-1)>>
ScenarioReturns == <<<<1, 100>>, <<1, 50>>, <<-1, 100>>, <<3, 100>>>>

\* the equal-length (signals, returns) pairs enumerated: every pair of length
\* 0 .. MaxLen over the value sets, and the scenario of length 4
Inputs ==
    { <<s, r>> : <<s, r>> \in UNION { [1..n -> SignalValues] \X [1..n -> ReturnValues]
                                        : n \in 0..MaxLen } }
    \cup { <<ScenarioSignals, ScenarioReturns>> }

InitBacktest ==
    /\ pc = "create"
    /\ \E in \in Inputs : signals = in[1] /\ returns = in[2]
    /\ plot_charts \in BOOLEAN
    /\ df = <<>>
    /\ total_pnl = Unset /\ mean_return = Unset /\ std_return = Unset
    /\ sharpe_ratio = Unset /\ drawdown = Unset /\ max_drawdown = Unset
    /\ cumulative_return = Unset /\ results = Unset /\ figure = Unset
    /\ returned = Unset /\ raised = "none"

IdleBacktest ==
    /\ pc = "idle" /\ signals = <<>> /\ returns = <<>> /\ plot_charts = FALSE
    /\ df = <<>>
    /\ total_pnl = Unset /\ mean_return = Unset /\ std_return = Unset
    /\ sharpe_ratio = Unset /\ drawdown = Unset /\ max_drawdown = Unset
    /\ cumulative_return = Unset /\ results = Unset /\ figure = Unset
    /\ returned = Unset /\ raised = "none"

\* df = pd.DataFrame({'signals': signals, 'returns': returns})
CreateFrame ==
    /\ pc = "create"
    /\ df' = [signals |-> signals, returns |-> returns]
    /\ pc' = "strategy"
    /\ UNCHANGED <<signals, returns, plot_charts, total_pnl, mean_return,
                   std_return, sharpe_ratio, drawdown, max_drawdown,
                   cumulative_return, results, figure, returned, raised>>
    /\ UNCHANGED fvars

\* df['strategy_returns'] = df['signals'].shift(1) * df['returns']
StrategyReturns ==
    /\ pc = "strategy"
    /\ df' = df @@ ("strategy_returns" :> SeriesMul(shift(df.signals), df.returns))
    /\ pc' = "fillna"
    /\ UNCHANGED <<signals, returns, plot_charts, total_pnl, mean_return,
                   std_return, sharpe_ratio, drawdown, max_drawdown,
                   cumulative_return, results, figure, returned, raised>>
    /\ UNCHANGED fvars

\* df['strategy_returns'].fillna(0, inplace=True)
FillNa ==
    /\ pc = "fillna"
    /\ df' = [df EXCEPT !.strategy_returns = fillna(@, Num(0))]
    /\ pc' = "cumprod"
    /\ UNCHANGED <<signals, returns, plot_charts, total_pnl, mean_return,
                   std_return, sharpe_ratio, drawdown, max_drawdown,
                   cumulative_return, results, figure, returned, raised>>
    /\ UNCHANGED fvars

\* df['cumulative_returns'] = (1 + df['strategy_returns']).cumprod()
CumulativeReturns ==
    /\ pc = "cumprod"
    /\ df' = df @@ ("cumulative_returns" :> cumprod(OnePlus(df.strategy_returns)))
    /\ pc' = "sum"
    /\ UNCHANGED <<signals, returns, plot_charts, total_pnl, mean_return,
                   std_return, sharpe_ratio, drawdown, max_drawdown,
                   cumulative_return, results, figure, returned, raised>>
    /\ UNCHANGED fvars

\* total_pnl = df['strategy_returns'].sum()
TotalPnl ==
    /\ pc = "sum"
    /\ total_pnl' = sum(df.strategy_returns)
    /\ pc' = "sharpe"
    /\ UNCHANGED <<signals, returns, plot_charts, df, mean_return,
                   std_return, sharpe_ratio, drawdown, max_drawdown,
                   cumulative_return, results, figure, returned, raised>>
    /\ UNCHANGED fvars

\* mean_return, std_return, sharpe_ratio
SharpeRatio ==
    /\ pc = "sharpe"
    /\ mean_return' = mean(df.strategy_returns)
    /\ std_return' = std(df.strategy_returns)
    /\ sharpe_ratio' = Sharpe(mean_return', std_return')
    /\ pc' = "drawdown"
    /\ UNCHANGED <<signals, returns, plot_charts, df, total_pnl,
                   drawdown, max_drawdown,
                   cumulative_return, results, figure, returned, raised>>
    /\ UNCHANGED fvars

\* cumulative_max, drawdown, max_drawdown
MaxDrawdown ==
    /\ pc = "drawdown"
    /\ LET cumulative_max == cummax(df.cumulative_returns)
       IN  drawdown' = SeriesDiv(SeriesSub(df.cumulative_returns, cumulative_max),
                                 cumulative_max)
    /\ max_drawdown' = min(drawdown')
    /\ pc' = "iloc"
    /\ UNCHANGED <<signals, returns, plot_charts, df, total_pnl, mean_return,
                   std_return, sharpe_ratio,
                   cumulative_return, results, figure, returned, raised>>
    /\ UNCHANGED fvars

\* a last-row lookup that yields NaN for no rows instead of raising
CumulativeReturn_no_raise ==
    /\ pc = "iloc"
    /\ cumulative_return' =
          IF Len(df.cumulative_returns) = 0 THEN NaN
          ELSE Sub(df.cumulative_returns[Len(df.cumulative_returns)], Num(1))
    /\ pc' = "results"
    /\ UNCHANGED <<signals, returns, plot_charts, df, total_pnl, mean_return,
                   std_return, sharpe_ratio, drawdown, max_drawdown,
                   results, figure, returned, raised>>
    /\ UNCHANGED fvars

\* cumulative_return = df['cumulative_returns'].iloc[-1] - 1
\* iloc[-1] of a column with no rows raises IndexError
CumulativeReturn ==
    /\ pc = "iloc"
    /\ IF Len(df.cumulative_returns) = 0
       THEN /\ raised' = "IndexError"
            /\ pc' = "error"
            /\ UNCHANGED cumulative_return
       ELSE /\ cumulative_return' =
                   Sub(df.cumulative_returns[Len(df.cumulative_returns)], Num(1))
            /\ pc' = "results"
            /\ UNCHANGED raised
    /\ UNCHANGED <<signals, returns, plot_charts, df, total_pnl, mean_return,
                   std_return, sharpe_ratio, drawdown, max_drawdown,
                   results, figure, returned>>
    /\ UNCHANGED fvars

\* results = {...}; its 'Performance DataFrame' entry is the object df
BuildResults ==
    /\ pc = "results"
    /\ results' = [TotalPnL |-> total_pnl,
                   SharpeRatio |-> sharpe_ratio,
                   MaxDrawdown |-> max_drawdown,
                   CumulativeReturn |-> cumulative_return,
                   PerformanceDataFrame |-> "df"]
    /\ pc' = "plot"
    /\ UNCHANGED <<signals, returns, plot_charts, df, total_pnl, mean_return,
                   std_return, sharpe_ratio, drawdown, max_drawdown,
                   cumulative_return, figure, returned, raised>>
    /\ UNCHANGED fvars

\* plot_performance(df, drawdown): the two lines drawn
plot_performance(d, dd) == [ax1 |-> d.cumulative_returns, ax2 |-> dd]

\* a plot_performance that stores the drawdown series in df before drawing
PlotCharts_adds_column ==
    /\ pc = "plot"
    /\ plot_charts
    /\ figure' = plot_performance(df, drawdown)
    /\ df' = df @@ ("drawdown" :> drawdown)
    /\ pc' = "return"
    /\ UNCHANGED <<signals, returns, plot_charts, total_pnl, mean_return,
                   std_return, sharpe_ratio, drawdown, max_drawdown,
                   cumulative_return, results, returned, raised>>
    /\ UNCHANGED fvars

\* if plot_charts: plot_performance(df, drawdown)
PlotCharts ==
    /\ pc = "plot"
    /\ plot_charts
    /\ figure' = plot_performance(df, drawdown)
    /\ pc' = "return"
    /\ UNCHANGED <<signals, returns, plot_charts, df, total_pnl, mean_return,
                   std_return, sharpe_ratio, drawdown, max_drawdown,
                   cumulative_return, results, returned, raised>>
    /\ UNCHANGED fvars

\* plot_charts is False: nothing is drawn
SkipCharts ==
    /\ pc = "plot"
    /\ ~plot_charts
    /\ pc' = "return"
    /\ UNCHANGED <<signals, returns, plot_charts, df, total_pnl, mean_return,
                   std_return, sharpe_ratio, drawdown, max_drawdown,
                   cumulative_return, results, figure, returned, raised>>
    /\ UNCHANGED fvars

\* return results: the caller sees the dictionary and, through it, df
Return ==
    /\ pc = "return"
    /\ returned' = [results EXCEPT !.PerformanceDataFrame = df]
    /\ pc' = "done"
    /\ UNCHANGED <<signals, returns, plot_charts, df, total_pnl, mean_return,
                   std_return, sharpe_ratio, drawdown, max_drawdown,
                   cumulative_return, results, figure, raised>>
    /\ UNCHANGED fvars

NextBacktest ==
    \/ CreateFrame
    \/ StrategyReturns
    \/ FillNa
    \/ CumulativeReturns
    \/ TotalPnl
    \/ SharpeRatio
    \/ MaxDrawdown
    \/ CumulativeReturn
    \/ BuildResults
    \/ PlotCharts
    \/ SkipCharts
    \/ Return

\* what backtest_strategy computes from (s, r), column by column

\* the strategy_returns column
strategy_returns_of(s, r) == fillna(SeriesMul(shift(s), r), Num(0))

\* the cumulative_returns column
cumulative_returns_of(s, r) == cumprod(OnePlus(strategy_returns_of(s, r)))

\* the drawdown series
drawdown_of(s, r) ==
    LET c == cumulative_returns_of(s, r)
    IN  SeriesDiv(SeriesSub(c, cummax(c)), cummax(c))

\* 'Total PnL'
total_pnl_of(s, r) == sum(strategy_returns_of(s, r))

\* 'Cumulative Return', for at least one row
cumulative_return_of(s, r) ==
    Sub(cumulative_returns_of(s, r)[Len(s)], Num(1))

\* the DataFrame
frame_of(s, r) ==
    [signals |-> s, returns |-> r,
     strategy_returns |-> strategy_returns_of(s, r),
     cumulative_returns |-> cumulative_returns_of(s, r)]

\* the dictionary returned, for at least one row
results_of(s, r) ==
    [TotalPnL |-> total_pnl_of(s, r),
     SharpeRatio |-> Sharpe(mean(strategy_returns_of(s, r)),
                            std(strategy_returns_of(s, r))),
     MaxDrawdown |-> min(drawdown_of(s, r)),
     CumulativeReturn |-> cumulative_return_of(s, r),
     PerformanceDataFrame |-> frame_of(s, r)]

-----------------------------------------------------------------------------
(* fetch_stock_data *)

Tickers == {"AAPL", "MSFT", "NOPE"}

Dates == 1..MaxDate

\* what yf.download may raise
ProviderErrors == {"network error", "invalid symbol", "rate limit"}

\* what yf.download may return: a table of 0 .. MaxRows rows
ProviderTables == { [i \in 1..k |-> [row |-> i]] : k \in 0..MaxRows }

Pending == [kind |-> "pending", table |-> <<>>]
None == [kind |-> "None", table |-> <<>>]

InitFetch ==
    /\ fpc = "try"
    /\ ticker \in Tickers
    /\ start_date \in Dates
    /\ end_date \in Dates
    /\ provider_calls = 0
    /\ data = <<>>
    /\ exc = "none"
    /\ printed = <<>>
    /\ fetched = Pending

IdleFetch ==
    /\ fpc = "idle" /\ ticker = "" /\ start_date = 0 /\ end_date = 0
    /\ provider_calls = 0 /\ data = <<>> /\ exc = "none" /\ printed = <<>>
    /\ fetched = Pending

\* data = yf.download(ticker, start=start_date, end=end_date): it returns a
\* table or raises
Download ==
    /\ fpc = "try"
    /\ provider_calls' = provider_calls + 1
    /\ \/ \E t \in ProviderTables :
             /\ data' = t
             /\ fpc' = "len"
             /\ UNCHANGED exc
       \/ \E e \in ProviderErrors :
             /\ exc' = e
             /\ fpc' = "except"
             /\ UNCHANGED data
    /\ UNCHANGED <<ticker, start_date, end_date, printed, fetched>>
    /\ UNCHANGED bvars

\* if len(data) == 0: print(f"No data for {ticker}"); return None
NoData ==
    /\ fpc = "len"
    /\ Len(data) = 0
    /\ printed' = Append(printed, <<"No data for", ticker>>)
    /\ fetched' = None
    /\ fpc' = "done"
    /\ UNCHANGED <<ticker, start_date, end_date, provider_calls, data, exc>>
    /\ UNCHANGED bvars

\* return data
ReturnData ==
    /\ fpc = "len"
    /\ Len(data) # 0
    /\ fetched' = [kind |-> "data", table |-> data]
    /\ fpc' = "done"
    /\ UNCHANGED <<ticker, start_date, end_date, provider_calls, data, exc,
                   printed>>
    /\ UNCHANGED bvars

\* a handler that lets the exception go on to the caller
HandleException_reraise ==
    /\ fpc = "except"
    /\ fetched' = [kind |-> "raised", table |-> <<>>]
    /\ fpc' = "done"
    /\ UNCHANGED <<ticker, start_date, end_date, provider_calls, data, exc,
                   printed>>
    /\ UNCHANGED bvars

\* except Exception as e: print(f"Error fetching data for {ticker}: {str(e)}");
\* return None
HandleException ==
    /\ fpc = "except"
    /\ printed' = Append(printed, <<"Error fetching data for", ticker, exc>>)
    /\ fetched' = None
    /\ fpc' = "done"
    /\ UNCHANGED <<ticker, start_date, end_date, provider_calls, data, exc>>
    /\ UNCHANGED bvars

NextFetch ==
    \/ Download
    \/ NoData
    \/ ReturnData
    \/ HandleException

-----------------------------------------------------------------------------
(* Specifications: one call of each function *)

\* a call of backtest_strategy on any enumerated input
InitB == InitBacktest /\ IdleFetch

SpecBacktest == InitB /\ [][NextBacktest]_vars

\* a call of fetch_stock_data on any enumerated input
InitF == InitFetch /\ IdleBacktest

SpecFetch == InitF /\ [][NextFetch]_vars

-----------------------------------------------------------------------------
(* Claims *)

Zero == Num(0)
One == Num(1)

\* the PerformanceTable handed to the caller
Table == returned.PerformanceDataFrame

\* number of input rows
N == Len(signals)

\* the call has returned its results
Done == pc = "done"

\* C1: for equal-length inputs of length n >= 1 the returned table has
\* exactly n rows, strategy_return[0] = 0 and, for 1 <= i < n,
\* strategy_return[i] = signal[i-1] * return[i]: the signal of the previous
\* row, never that of the same row.  (Rows are numbered from 1 here.)
C1_StrategyReturnUsesPreviousSignal ==
    (Done /\ N >= 1) =>
        /\ \A c \in DOMAIN Table : Len(Table[c]) = N
        /\ DOMAIN Table =
              {"signals", "returns", "strategy_returns", "cumulative_returns"}
        /\ Table.signals = signals
        /\ Table.returns = returns
        /\ Table.strategy_returns[1] = Zero
        /\ \A i \in 2..N :
              Table.strategy_returns[i] = Mul(signals[i - 1], returns[i])

\* a returned table in which the previous row's signal and the same row's
\* signal give different strategy returns
C1_Witness ==
    /\ Done
    /\ N >= 2
    /\ \E i \in 2..N :
          /\ Mul(signals[i - 1], returns[i]) # Mul(signals[i], returns[i])
          /\ Table.strategy_returns[i] # Zero
    /\ Mul(signals[1], returns[1]) # Zero

\* the product over k = 1..i of (1 + col[k])
RECURSIVE Compound(_, _)
Compound(col, i) ==
    IF i = 0 THEN One ELSE Mul(Compound(col, i - 1), Add(One, col[i]))

\* the sum over k = 1..i of col[k]
RECURSIVE Total(_, _)
Total(col, i) == IF i = 0 THEN Zero ELSE Add(Total(col, i - 1), col[i])

\* C2: for equal-length inputs of length n >= 1 the summary is the fold of
\* the returned table: cumulative_return[i] is the product over k <= i of
\* (1 + strategy_return[k]), 'Total PnL' is the sum of strategy_return and
\* 'Cumulative Return' is cumulative_return[n-1] - 1; signals [0, 1, 1, -1]
\* with returns [0.01, 0.02, -0.01, 0.03] give strategy_return
\* [0, 0, -0.01, 0.03], cumulative_return [1, 1, 0.99, 1.0197], final
\* cumulative return 0.0197 and total_pnl 0.02.
C2_SummaryIsFoldOfTable ==
    (Done /\ N >= 1) =>
        /\ \A i \in 1..N :
              Table.cumulative_returns[i] = Compound(Table.strategy_returns, i)
        /\ returned.TotalPnL = Total(Table.strategy_returns, N)
        /\ returned.CumulativeReturn = Sub(Table.cumulative_returns[N], One)
        /\ (signals = ScenarioSignals /\ returns = ScenarioReturns) =>
              /\ Table.strategy_returns = <<Zero, Zero, <<-1, 100>>, <<3, 100>>>>
              /\ Table.cumulative_returns =
                    <<One, One, <<99, 100>>, <<10197, 10000>>>>
              /\ returned.CumulativeReturn = <<197, 10000>>
              /\ returned.TotalPnL = Norm(2, 100)

\* the scenario has returned
C2_Witness ==
    /\ Done
    /\ signals = ScenarioSignals
    /\ returns = ScenarioReturns
    /\ returned.CumulativeReturn # returned.TotalPnL

\* the call of fetch_stock_data is over
FetchDone == fpc = "done"

NoDataDiagnostic == <<"No data for", ticker>>

FetchFailureDiagnostic == <<"Error fetching data for", ticker, exc>>

ConstantNonzero(col) ==
    /\ Len(col) >= 1
    /\ col[1] # Zero
    /\ \A i \in 1..Len(col) : col[i] = col[1]

ConstantInputs == ConstantNonzero(signals) /\ ConstantNonzero(returns)

\* C4 as stated: for a signal that is the same nonzero value at every row
\* and a return that is the same nonzero value at every row,
\* backtest_strategy does not raise and 'Sharpe Ratio' is NaN.
C4_ConstantInputsGiveNaNSharpe ==
    /\ ConstantInputs => raised = "none"
    /\ (Done /\ ConstantInputs) => isnan(returned.SharpeRatio)

\* C4 amended: for such inputs backtest_strategy does not raise, and
\* 'Sharpe Ratio' is NaN only for a single row; from two rows on
\* strategy_return is 0 at row 0 and signal * return after it, its variance
\* is not zero, and 'Sharpe Ratio' is a number with the sign of
\* signal * return.  'Sharpe Ratio' is NaN, not an error, whenever
\* strategy_return is 0 at every row (zero variance).
C4_SharpeNaNOnlyWithoutVariance ==
    /\ ConstantInputs => raised = "none"
    /\ (Done /\ ConstantInputs) =>
          /\ isnan(returned.SharpeRatio) <=> N = 1
          /\ N >= 2 =>
                Sign(returned.SharpeRatio) = Sign(Mul(signals[1], returns[1]))
    /\ (Done /\ \A i \in 1..N : Table.strategy_returns[i] = Zero) =>
          isnan(returned.SharpeRatio)

\* constant nonzero inputs of three rows, with a Sharpe ratio that is a number
C4_Witness ==
    /\ Done
    /\ ConstantInputs
    /\ N = 3
    /\ ~isnan(returned.SharpeRatio)
    /\ std_return # Zero

\* the longest input enumerated
LongestInput == IF MaxLen < Len(ScenarioSignals) THEN Len(ScenarioSignals) ELSE MaxLen

\* the permutations of 1..n, for every n up to LongestInput
PermsUpTo ==
    [n \in 0..LongestInput |->
        { p \in [1..n -> 1..n] : \A i, j \in 1..n : p[i] = p[j] => i = j }]

\* the permutations of 1..n
Perms(n) == PermsUpTo[n]

\* col o p
Reordered(col, p) == [i \in 1..Len(col) |-> col[p[i]]]

\* a and b hold the same values, each as often
SameValues(a, b) ==
    /\ Len(a) = Len(b)
    /\ \A i \in 1..Len(a) :
          Cardinality({k \in 1..Len(a) : a[k] = a[i]})
             = Cardinality({k \in 1..Len(b) : b[k] = a[i]})

\* C5 as stated: for every permutation p of the rows, the call on
\* (signals o p, returns o p) gives the same 'Total PnL' and the same final
\* 'Cumulative Return' as the call on (signals, returns).
C5_ReorderingKeepsTotals ==
    (Done /\ N >= 1) =>
        \A p \in Perms(N) :
            /\ total_pnl_of(Reordered(signals, p), Reordered(returns, p))
                  = returned.TotalPnL
            /\ cumulative_return_of(Reordered(signals, p), Reordered(returns, p))
                  = returned.CumulativeReturn

\* C5 amended: 'Total PnL' and the final 'Cumulative Return' depend only on
\* which strategy_return values occur, not on their order: for every
\* permutation p of the rows under which (signals o p, returns o p) has the
\* same strategy_return values as (signals, returns), each as often, both
\* are the same as for (signals, returns).
C5_TotalsDependOnStrategyReturnValuesOnly ==
    (Done /\ N >= 1) =>
        \A p \in Perms(N) :
            SameValues(strategy_returns_of(Reordered(signals, p),
                                           Reordered(returns, p)),
                       Table.strategy_returns) =>
                /\ total_pnl_of(Reordered(signals, p), Reordered(returns, p))
                      = returned.TotalPnL
                /\ cumulative_return_of(Reordered(signals, p),
                                        Reordered(returns, p))
                      = returned.CumulativeReturn

\* a reordering that moves the strategy_return values and keeps them all
C5_Witness ==
    /\ Done
    /\ N = 3
    /\ returned.TotalPnL # Zero
    /\ \E p \in Perms(N) :
          LET sr == strategy_returns_of(Reordered(signals, p),
                                        Reordered(returns, p))
          IN  /\ SameValues(sr, Table.strategy_returns)
              /\ sr # Table.strategy_returns

\* C6: for inputs of length n >= 1 whose signal is 0 at every row, whatever
\* the returns, strategy_return is 0 and cumulative_return is 1 at every
\* row, 'Max Drawdown' = 0 and 'Total PnL' = 0.
C6_FlatSignalGivesFlatTable ==
    (Done /\ N >= 1 /\ \A i \in 1..N : signals[i] = Zero) =>
        /\ \A i \in 1..N : Table.strategy_returns[i] = Zero
        /\ \A i \in 1..N : Table.cumulative_returns[i] = One
        /\ returned.MaxDrawdown = Zero
        /\ returned.TotalPnL = Zero

\* an all-zero signal against returns that are not all alike
C6_Witness ==
    /\ Done
    /\ N = 3
    /\ \A i \in 1..N : signals[i] = Zero
    /\ returns[1] = <<-3, 2>>
    /\ returns[2] = <<3, 100>>
    /\ returns[3] = <<-1, 1>>

\* the drawdown series has been computed
DrawdownComputed == pc \in {"iloc", "results", "plot", "return", "done"}

\* max(col[1..i])
RunningMax(col, i) ==
    CHOOSE m \in {col[k] : k \in 1..i} : \A k \in 1..i : LessEq(col[k], m)

\* C7: for inputs of length n >= 1 with signals in {-1, 0, 1} and returns
\* of any magnitude (strategy returns <= -1 included), drawdown[i] =
\* (cumulative_return[i] - running_max[i]) / running_max[i] with
\* running_max[i] = max(cumulative_return[0..i]) is <= 0 at every row, and
\* 'Max Drawdown' = min(drawdown) is <= 0.
C7_DrawdownNeverPositive ==
    (DrawdownComputed /\ N >= 1) =>
        /\ \A i \in 1..N :
              LET m == RunningMax(df.cumulative_returns, i)
              IN  /\ drawdown[i] = Div(Sub(df.cumulative_returns[i], m), m)
                  /\ LessEq(drawdown[i], Zero)
        /\ \A i \in 1..N : LessEq(max_drawdown, drawdown[i])
        /\ \E i \in 1..N : max_drawdown = drawdown[i]
        /\ LessEq(max_drawdown, Zero)
        /\ Done => returned.MaxDrawdown = max_drawdown

\* a cumulative return driven below zero, and a drawdown of more than 100%
C7_Witness ==
    /\ Done
    /\ \E i \in 1..N :
          /\ Less(Table.cumulative_returns[i], Zero)
          /\ Less(drawdown[i], Num(-1))
    /\ \E i \in 1..N : Table.cumulative_returns[i] = Zero
    /\ Less(returned.MaxDrawdown, Num(-1))

\* every strategy_return[k], k <= i, is > -1
AboveMinusOne(col, i) == \A k \in 1..i : Less(Num(-1), col[k])

\* C8: for every row i, if strategy_return[k] > -1 for every k <= i then
\* cumulative_return[i] >= 0 in the returned table.
C8_CumulativeReturnNonNegative ==
    Done =>
        \A i \in 1..N :
            AboveMinusOne(Table.strategy_returns, i) =>
                LessEq(Zero, Table.cumulative_returns[i])

\* a table whose first rows are above -1 and whose later rows are not, with
\* a negative cumulative return there
C8_Witness ==
    /\ Done
    /\ N = 3
    /\ AboveMinusOne(Table.strategy_returns, 2)
    /\ Less(One, Table.strategy_returns[2])
    /\ ~AboveMinusOne(Table.strategy_returns, 3)
    /\ Less(Table.cumulative_returns[3], Zero)

\* C9: backtest_strategy with plot_charts = True returns the same 'Total
\* PnL', 'Sharpe Ratio', 'Max Drawdown', 'Cumulative Return' and table as
\* with plot_charts = False: what is returned is results_of(signals,
\* returns) whatever plot_charts is, and plot_performance only reads the
\* table and the drawdown series.
C9_PlottingChangesNothingReturned ==
    Done =>
        LET res == results_of(signals, returns)
        IN  /\ returned = res
            /\ df = res.PerformanceDataFrame
            /\ returned.MaxDrawdown = min(drawdown)
            /\ plot_charts =>
                  figure = [ax1 |-> res.PerformanceDataFrame.cumulative_returns,
                            ax2 |-> drawdown]
            /\ ~plot_charts => figure = Unset

\* a call that drew its charts and returned
C9_Witness ==
    /\ Done
    /\ plot_charts
    /\ N = 3
    /\ figure # Unset
    /\ figure.ax1 # <<One, One, One>>
    /\ figure.ax2 # <<Zero, Zero, Zero>>

\* C10: with no rows backtest_strategy returns no dictionary: it ends in the
\* error raised by the lookup of the last row of cumulative_returns, after
\* the sum, the Sharpe ratio and the drawdown have been evaluated without
\* error.  With n >= 1 rows no step raises.
C10_EmptyInputRaisesAtLastRow ==
    /\ N = 0 =>
          /\ pc \notin {"results", "plot", "return", "done"}
          /\ returned = Unset
          /\ raised # "none" <=> pc = "error"
          /\ pc = "error" =>
                /\ raised = "IndexError"
                /\ total_pnl = Zero
                /\ isnan(mean_return) /\ isnan(std_return)
                /\ isnan(sharpe_ratio)
                /\ drawdown = <<>>
                /\ isnan(max_drawdown)
                /\ cumulative_return = Unset
    /\ N >= 1 => raised = "none" /\ pc # "error"

\* the call on empty inputs has ended in the error
C10_Witness ==
    /\ N = 0
    /\ pc = "error"
    /\ raised = "IndexError"

====
